---- MODULE Spec2Model ----
(***************************************************************************)
(* State-machine model of index.js: the directory crawler with a durable   *)
(* work queue (company_queue.json), a checkpoint (scraping_progress.json), *)
(* an append-only output table (output.csv), the chunked worker pool       *)
(* (processCompaniesInChunks / processCompany) and the tab/page traversal  *)
(* of the main function.  The process may be killed at any await point or  *)
(* between two file writes and started again from the files on disk.       *)
(***************************************************************************)
EXTENDS Integers, Sequences, FiniteSets, Bags, TLC

\* ------------------------------------------------------------------ bounds
MaxFaults == 4       \* faults in one behaviour: errors raised by a navigation or
                     \* an extraction, and kills of the process
MaxVisits == 3       \* length up to which the per-tab page history is kept

\* ------------------------------------------------------- program constants
CONCURRENCY_LIMIT == 5
maxRetries == 3

\* ----------------------------------------------------------------- values
\* A listing URL: the tab it belongs to and its trailing "-<n>" suffix
\* (page = 0: the URL has no numeric suffix).
Url(t, p) == [tab |-> t, page |-> p]
null == Url(0, 0)
BASE_URL == Url(0, 1)

\* An <a> element of a listing page: its text and its href.
Company(n, u) == [name |-> n, url |-> u]

\* A tab of the directory: whether its link carries a "-1" suffix, and the
\* listings of its pages 1..k (page k+1 answers 404).
Tab(s, ps) == [suffix |-> s, pages |-> ps]

\* The directories the crawl is run against.
SiteDup ==
    << Tab(TRUE, << <<Company("a", "/a"), Company("a", "/a2"), Company("b", "/b")>>,
                    <<Company("c", "/c")>> >>),
       Tab(TRUE, << <<Company("a", "/a"), Company("d", "/d")>> >>) >>

SitePlain ==
    << Tab(FALSE, << <<Company("a", "/a")>>, <<Company("b", "/b")>> >>),
       Tab(TRUE, << <<Company("c", "/c")>> >>) >>

SiteLong ==
    << Tab(TRUE, << <<Company("a", "/a"), Company("b", "/b"), Company("c", "/c"),
                      Company("d", "/d"), Company("e", "/e"), Company("a", "/a2")>> >>) >>

Sites == {SiteDup, SitePlain, SiteLong}

\* Detail pages that show no "View the website" link.
NoWebsite == {"/b"}

\* Detail pages whose visit can raise an error (navigation, selector, close).
Unreliable == {"/a2", "/c"}

VARIABLES
    site,                \* the directory served to this crawl
    csvExists, csvRows,  \* output.csv: does it exist, bag of its data rows
    progressFileExists, progressFile,   \* scraping_progress.json
    queueFileExists, queueFile,         \* company_queue.json
    progress,            \* in-memory checkpoint
    companyQueue,        \* in-memory work queue
    pc,                  \* position of the main function
    caller,              \* who awaits processCompaniesInChunks: "resume" | "page"
    tabLinks, i, nextPageUrl,           \* locals of main
    chunk, wstate, retryCount, results, \* the chunk in flight and its workers
    faults,              \* faults injected so far
    visited,             \* history: per tab index, the pages listed in this run
    extracted,           \* history: pages listed since the crawl began
    enqueued             \* history: entries pushed since the crawl began
\* (a crawl begins with no checkpoint on disk and ends when the checkpoint is
\* deleted; extracted and enqueued survive a kill, visited does not)

vars == <<site, csvExists, csvRows, progressFileExists, progressFile,
          queueFileExists, queueFile, progress, companyQueue, pc, caller,
          tabLinks, i, nextPageUrl, chunk, wstate, retryCount, results,
          faults, visited, extracted, enqueued>>

disk == <<csvExists, csvRows, progressFileExists, progressFile,
          queueFileExists, queueFile>>
pool == <<chunk, wstate, retryCount, results>>
locals == <<tabLinks, i, nextPageUrl>>
env == <<site, faults>>
hist == <<visited, extracted, enqueued>>

\* ------------------------------------------------------------ the website
\* href of tab t's link on the base page.
TabUrl(t) == Url(t, IF site[t].suffix THEN 1 ELSE 0)

\* Which page of its tab a URL serves (a URL without suffix serves page 1).
PageOf(u) == IF u.page = 0 THEN 1 ELSE u.page

Exists(u) == /\ u.tab \in 1..Len(site)
             /\ PageOf(u) \in 1..Len(site[u.tab].pages)

\* Status of the response to page.goto(u).
Status(u) == IF Exists(u) THEN 200 ELSE 404

\* page.$$eval('li... > a'): the company links of the page shown.
Listing(u) == IF Exists(u) THEN site[u.tab].pages[PageOf(u)] ELSE <<>>

\* page.$$eval on the base page: the tab links.
TabLinksOf == [t \in 1..Len(site) |-> TabUrl(t)]

\* waitForSelectorSafe + $eval on a detail page.
HomepageOf(u) == IF u \in NoWebsite THEN "" ELSE "www"

\* ---------------------------------------------------------------- helpers
\* Min that lets splice take the whole queue.
MinSecond(a, b) == b

Min(a, b) == IF a < b THEN a ELSE b

RECURSIVE Filter(_, _)
\* Array.prototype.filter with a predicate given as the set of kept indices.
Filter(s, keep) ==
    IF s = <<>> THEN <<>>
    ELSE LET n == Len(s)
             front == Filter(SubSeq(s, 1, n - 1), keep)
         IN IF n \in keep THEN Append(front, s[n]) ELSE front

\* progress as declared at lines 12-17.
EmptyProgress == [processedCompanies |-> {}, lastTabUrl |-> null,
                  lastPageUrl |-> null, totalProcessed |-> 0]

\* ------------------------------------------------------------------- Init
Init ==
    /\ site \in Sites
    /\ csvExists = FALSE /\ csvRows = EmptyBag
    /\ progressFileExists = FALSE /\ progressFile = EmptyProgress
    /\ queueFileExists = FALSE /\ queueFile = <<>>
    /\ progress = EmptyProgress
    /\ companyQueue = <<>>
    /\ pc = "start" /\ caller = "resume"
    /\ tabLinks = <<>> /\ i = 0 /\ nextPageUrl = null
    /\ chunk = <<>> /\ wstate = <<>> /\ retryCount = <<>> /\ results = <<>>
    /\ faults = 0
    /\ visited = [t \in 1..Len(site) |-> <<>>]
    /\ extracted = {} /\ enqueued = {}

\* ------------------------------------------------------------- file writes
\* saveProgress(), lines 35-42, of the checkpoint p.
SaveProgress(p) == progressFileExists' = TRUE /\ progressFile' = p

\* saveQueue(), lines 45-47, of the queue q.
SaveQueue(q) == queueFileExists' = TRUE /\ queueFile' = q

\* The queue entry addToQueue builds from a company link.
Entry(company, sourceurl) ==
    [name |-> company.name, url |-> company.url, sourceurl |-> sourceurl]

\* The companies addToQueue keeps: those whose name is not processed.
NewCompanies(companies, processed) ==
    Filter(companies, {k \in 1..Len(companies) : companies[k].name \notin processed})

\* companyQueue after addToQueue(companies, sourceurl), lines 50-55.
AddToQueue(q, companies, sourceurl, processed) ==
    LET new == NewCompanies(companies, processed)
    IN q \o [k \in 1..Len(new) |-> Entry(new[k], sourceurl)]

\* ---------------------------------------------------------------- startup
\* Module load (lines 22-32) and the head of main (lines 134-142).
Startup ==
    /\ pc = "start"
    /\ progress' = IF progressFileExists THEN progressFile ELSE EmptyProgress
    /\ companyQueue' = IF queueFileExists THEN queueFile ELSE <<>>
    /\ csvExists' = TRUE
    /\ caller' = "resume"
    /\ pc' = IF companyQueue' # <<>> THEN "chunkStart" ELSE "gotoBase"
    /\ UNCHANGED <<csvRows, progressFileExists, progressFile, queueFileExists,
                   queueFile, locals, pool, env, hist>>

\* StartTabIndex that ignores the saved tab: every run starts at the first tab.
StartTabIndexFirst(links, lastTabUrl) == 1

\* tabLinks.findIndex(tab => tab.url === lastTabUrl) with the fallback to the
\* first tab, lines 156-160 (indices are 1-based here).
StartTabIndex(links, lastTabUrl) ==
    IF lastTabUrl = null THEN 1
    ELSE LET found == {k \in 1..Len(links) : links[k] = lastTabUrl}
         IN IF found = {} THEN 1
            ELSE CHOOSE k \in found : \A j \in found : k <= j

\* page.goto(BASE_URL) and the tab links, lines 145-160.
GotoBase ==
    /\ pc = "gotoBase"
    /\ tabLinks' = TabLinksOf
    /\ i' = StartTabIndex(TabLinksOf, progress.lastTabUrl)
    /\ pc' = "tabEntry"
    /\ UNCHANGED <<disk, progress, companyQueue, caller, nextPageUrl, pool, env, hist>>

\* page.goto(BASE_URL) throws: the outer catch (lines 226-231) ends the run.
GotoBaseError ==
    /\ pc = "gotoBase"
    /\ faults < MaxFaults
    /\ faults' = faults + 1
    /\ pc' = "exited"
    /\ UNCHANGED <<disk, progress, companyQueue, caller, locals, pool,
                   site, hist>>

\* ---------------------------------------------------------------- the tabs
\* First listing URL of the tab being entered, line 164.
FirstPageUrl(lastPageUrl, tabUrl) == IF lastPageUrl # null THEN lastPageUrl ELSE tabUrl

\* Head of the for loop body, lines 162-168.
EnterTab ==
    /\ pc = "tabEntry"
    /\ i <= Len(tabLinks)
    /\ nextPageUrl' = FirstPageUrl(progress.lastPageUrl, tabLinks[i])
    /\ progress' = [progress EXCEPT !.lastPageUrl = null]
    /\ SaveProgress(progress')
    /\ pc' = "pageGoto"
    /\ UNCHANGED <<csvExists, csvRows, queueFileExists, queueFile, companyQueue,
                   caller, tabLinks, i, pool, env, hist>>

\* The page served at u, as the (tab, page index) it shows.
Served(u) == Url(u.tab, PageOf(u))

\* History of the pages listed under tab index t, kept up to MaxVisits.
Visit(v, t, u) ==
    IF Len(v[t]) < MaxVisits THEN [v EXCEPT ![t] = Append(@, Served(u))] ELSE v

\* page.goto(nextPageUrl), the company links and addToQueue, lines 172-183.
PageGoto ==
    /\ pc = "pageGoto"
    /\ LET companies == Listing(nextPageUrl)
           sourceurl == tabLinks[i]
           q == AddToQueue(companyQueue, companies, sourceurl, progress.processedCompanies)
       IN /\ companyQueue' = q
          /\ SaveQueue(q)
          /\ enqueued' = enqueued \cup
                 {q[k] : k \in Len(companyQueue) + 1 .. Len(q)}
    /\ visited' = Visit(visited, i, nextPageUrl)
    /\ extracted' = extracted \cup {Served(nextPageUrl)}
    /\ caller' = "page"
    /\ pc' = "chunkStart"
    /\ UNCHANGED <<csvExists, csvRows, progressFileExists, progressFile, progress,
                   locals, pool, env>>

\* PageGotoError with `break` for `continue`: the error ends the tab.
PageGotoErrorLeavesTab ==
    /\ pc = "pageGoto"
    /\ faults < MaxFaults
    /\ faults' = faults + 1
    /\ i' = i + 1
    /\ pc' = "tabEntry"
    /\ UNCHANGED <<disk, progress, companyQueue, caller, tabLinks, nextPageUrl,
                   pool, site, hist>>

\* page.goto or $$eval throws: the page catch, lines 210-213.
PageGotoError ==
    /\ pc = "pageGoto"
    /\ faults < MaxFaults
    /\ faults' = faults + 1
    /\ pc' = "pageWait"
    /\ UNCHANGED <<disk, progress, companyQueue, caller, locals, pool,
                   site, hist>>

\* The 30 s timer of line 212 fires; `continue` retries the same URL.
PageWaitElapsed ==
    /\ pc = "pageWait"
    /\ pc' = "pageGoto"
    /\ UNCHANGED <<disk, progress, companyQueue, caller, locals, pool, env, hist>>

\* nextPageUrl.replace(/-(\d+)$/, `-${currentPage + 1}`), lines 193-197: a URL
\* without numeric suffix has nothing to replace.
NextPage(u) == IF u.page = 0 THEN u ELSE Url(u.tab, u.page + 1)

\* The page checkpoint after the drain, lines 188-190.
PageSave ==
    /\ pc = "pageSave"
    /\ progress' = [progress EXCEPT !.lastPageUrl = nextPageUrl,
                                    !.lastTabUrl = tabLinks[i]]
    /\ SaveProgress(progress')
    /\ pc' = "probe"
    /\ UNCHANGED <<csvExists, csvRows, queueFileExists, queueFile, companyQueue,
                   caller, locals, pool, env, hist>>

\* The probe answers with a page, lines 201-205.
ProbeFound ==
    /\ pc = "probe"
    /\ Status(NextPage(nextPageUrl)) # 404
    /\ nextPageUrl' = NextPage(nextPageUrl)
    /\ pc' = "pageGoto"
    /\ UNCHANGED <<disk, progress, companyQueue, caller, tabLinks, i, pool, env, hist>>

\* The probe answers 404: break, and the for loop moves on, lines 202-204.
ProbeNotFound ==
    /\ pc = "probe"
    /\ Status(NextPage(nextPageUrl)) = 404
    /\ i' = i + 1
    /\ pc' = "tabEntry"
    /\ UNCHANGED <<disk, progress, companyQueue, caller, tabLinks, nextPageUrl,
                   pool, env, hist>>

\* The probe throws: break as well, lines 206-209.
ProbeError ==
    /\ pc = "probe"
    /\ faults < MaxFaults
    /\ faults' = faults + 1
    /\ i' = i + 1
    /\ pc' = "tabEntry"
    /\ UNCHANGED <<disk, progress, companyQueue, caller, tabLinks, nextPageUrl,
                   pool, site, hist>>

\* ---------------------------------------------------------------- cleanup
\* All tabs done: unlink the checkpoint, lines 219-221.
CleanupProgress ==
    /\ pc = "tabEntry"
    /\ i > Len(tabLinks)
    /\ progressFileExists' = FALSE
    /\ progressFile' = EmptyProgress
    /\ pc' = "cleanupQueue"
    /\ extracted' = {} /\ enqueued' = {}
    /\ UNCHANGED <<csvExists, csvRows, queueFileExists, queueFile, progress,
                   companyQueue, caller, locals, pool, env, visited>>

\* Unlink the queue file, lines 222-225.
CleanupQueue ==
    /\ pc = "cleanupQueue"
    /\ queueFileExists' = FALSE
    /\ queueFile' = <<>>
    /\ pc' = "done"
    /\ UNCHANGED <<csvExists, csvRows, progressFileExists, progressFile, progress,
                   companyQueue, caller, locals, pool, env, hist>>

\* ------------------------------------------------------- the worker pool
\* processCompany up to its first await, lines 61-70: a processed name returns
\* at once (the promise resolves to undefined), any other starts attempt 1.
StartState(company, processed) ==
    IF company.name \in processed THEN "done" ELSE "run"

StartResult(company, processed) ==
    IF company.name \in processed THEN "undefined" ELSE "pending"

\* companyQueue.splice(0, CONCURRENCY_LIMIT) and chunk.map(processCompany),
\* lines 102-104.
ChunkStart ==
    /\ pc = "chunkStart"
    /\ companyQueue # <<>>
    /\ LET n == Min(CONCURRENCY_LIMIT, Len(companyQueue))
           c == SubSeq(companyQueue, 1, n)
       IN /\ chunk' = c
          /\ companyQueue' = SubSeq(companyQueue, n + 1, Len(companyQueue))
          /\ wstate' = [k \in 1..n |-> StartState(c[k], progress.processedCompanies)]
          /\ results' = [k \in 1..n |-> StartResult(c[k], progress.processedCompanies)]
          /\ retryCount' = [k \in 1..n |-> 0]
    /\ pc' = "workers"
    /\ UNCHANGED <<disk, progress, caller, locals, env, hist>>

\* The CSV line of a company, lines 79-82.
Row(company) ==
    [sourceurl |-> company.sourceurl, name |-> company.name,
     homepageUrl |-> HomepageOf(company.url)]

\* MarkProcessed without line 85: the counter is not incremented.
MarkProcessedNoCount(p, name) ==
    [p EXCEPT !.processedCompanies = @ \cup {name}]

\* Lines 84-85 applied to the checkpoint p.
MarkProcessed(p, name) ==
    [p EXCEPT !.processedCompanies = @ \cup {name},
              !.totalProcessed = @ + 1]

\* MayRetry with <= for <: one attempt more.
MayRetryOnceMore(rc) == rc <= maxRetries

\* The loop condition of line 68 (and the test of line 92).
MayRetry(rc) == rc < maxRetries

\* An attempt gets through newPage, goto and the selector, lines 70-76, and
\* appends the row, records the name and saves the checkpoint, lines 79-86.
Written(w) ==
    /\ csvExists' = TRUE
    /\ csvRows' = csvRows (+) SetToBag({Row(chunk[w])})
    /\ progress' = MarkProcessed(progress, chunk[w].name)
    /\ SaveProgress(progress')

\* The catch block, lines 89-95, and the exit of the loop, line 97.
Catch(w) ==
    /\ chunk[w].url \in Unreliable
    /\ faults < MaxFaults
    /\ faults' = faults + 1
    /\ retryCount' = [retryCount EXCEPT ![w] = @ + 1]
    /\ IF MayRetry(retryCount'[w])
       THEN /\ wstate' = [wstate EXCEPT ![w] = "wait"]
            /\ UNCHANGED results
       ELSE /\ wstate' = [wstate EXCEPT ![w] = "done"]
            /\ results' = [results EXCEPT ![w] = "false"]
    /\ UNCHANGED <<companyQueue, pc, caller, locals, chunk,
                   site, hist>>

\* A whole attempt, lines 70-88: the row is written, companyPage.close()
\* returns and the worker returns true.
AttemptSucceeds(w) ==
    /\ pc = "workers"
    /\ wstate[w] = "run"
    /\ Written(w)
    /\ wstate' = [wstate EXCEPT ![w] = "done"]
    /\ results' = [results EXCEPT ![w] = "true"]
    /\ UNCHANGED <<queueFileExists, queueFile, companyQueue, pc, caller, locals,
                   chunk, retryCount, env, hist>>

\* newPage, goto or $eval throws, lines 70-75: nothing was written.
AttemptFails(w) ==
    /\ pc = "workers"
    /\ wstate[w] = "run"
    /\ Catch(w)
    /\ UNCHANGED <<disk, progress>>

\* The row is written and the checkpoint saved, then companyPage.close()
\* throws, line 87: the catch block runs.
CloseFails(w) ==
    /\ pc = "workers"
    /\ wstate[w] = "run"
    /\ Written(w)
    /\ Catch(w)
    /\ UNCHANGED <<queueFileExists, queueFile>>

\* The 30 s timer of line 93 fires: the next attempt starts.
RetryTimer(w) ==
    /\ pc = "workers"
    /\ wstate[w] = "wait"
    /\ wstate' = [wstate EXCEPT ![w] = "run"]
    /\ UNCHANGED <<disk, progress, companyQueue, pc, caller, locals, chunk,
                   retryCount, results, env, hist>>

\* !results[index], line 107.
Falsy(r) == r \in {"false", "undefined"}

\* chunk.filter((_, index) => !results[index]), line 107.
FailedCompanies(c, res) == Filter(c, {k \in 1..Len(c) : Falsy(res[k])})

\* Unshift without line 108: the failed members are not put back.
UnshiftNothing(q, failed) == q

\* companyQueue.unshift(...failedCompanies), line 108.
Unshift(q, failed) == failed \o q

\* Promise.all has settled: requeue, save and the all-failed test,
\* lines 105-114.
ChunkEnd ==
    /\ pc = "workers"
    /\ \A w \in 1..Len(chunk) : wstate[w] = "done"
    /\ LET failed == FailedCompanies(chunk, results)
       IN /\ companyQueue' = Unshift(companyQueue, failed)
          /\ SaveQueue(companyQueue')
          /\ pc' = IF Len(failed) = Len(chunk) THEN "cooldown" ELSE "chunkStart"
    /\ UNCHANGED <<csvExists, csvRows, progressFileExists, progressFile, progress,
                   caller, locals, pool, env, hist>>

\* The 30 s timer of line 113 fires.
CooldownElapsed ==
    /\ pc = "cooldown"
    /\ pc' = "chunkStart"
    /\ UNCHANGED <<disk, progress, companyQueue, caller, locals, pool, env, hist>>

\* DrainReturns with `if` for `while` at line 102: one chunk, then return.
DrainReturnsEarly ==
    /\ pc = "chunkStart"
    /\ companyQueue = <<>> \/ chunk # <<>>
    /\ pc' = IF caller = "resume" THEN "gotoBase" ELSE "pageSave"
    /\ chunk' = <<>> /\ wstate' = <<>> /\ retryCount' = <<>> /\ results' = <<>>
    /\ UNCHANGED <<disk, progress, companyQueue, caller, locals, env, hist>>

\* The while condition of line 102 is false: processCompaniesInChunks returns
\* to line 142 or to line 186.
DrainReturns ==
    /\ pc = "chunkStart"
    /\ companyQueue = <<>>
    /\ pc' = IF caller = "resume" THEN "gotoBase" ELSE "pageSave"
    /\ chunk' = <<>> /\ wstate' = <<>> /\ retryCount' = <<>> /\ results' = <<>>
    /\ UNCHANGED <<disk, progress, companyQueue, caller, locals, env, hist>>

\* ------------------------------------------------------ kill and restart
\* The process is gone: what lines 12-20 declare is all that a new process has.
MemoryLost ==
    /\ progress' = EmptyProgress
    /\ companyQueue' = <<>>
    /\ caller' = "resume"
    /\ tabLinks' = <<>> /\ i' = 0 /\ nextPageUrl' = null
    /\ chunk' = <<>> /\ wstate' = <<>> /\ retryCount' = <<>> /\ results' = <<>>
    /\ visited' = [t \in 1..Len(site) |-> <<>>]
    /\ pc' = "start"

Running == pc \notin {"start", "done", "exited"}

\* The process is killed at an await or between two statements and started
\* again; the files stay as they are.
Crash ==
    /\ Running
    /\ faults < MaxFaults
    /\ faults' = faults + 1
    /\ MemoryLost
    /\ UNCHANGED <<disk, site, extracted, enqueued>>

\* HalfWritten with lines 79 and 86 exchanged: the checkpoint is saved first.
HalfWrittenSaveFirst(w) ==
    /\ SaveProgress(MarkProcessed(progress, chunk[w].name))
    /\ UNCHANGED <<csvExists, csvRows>>

\* The files when the process dies in processCompany after appendFileSync
\* (line 79) and before saveProgress (line 86): the row is there, the
\* checkpoint is the one saved before.
HalfWritten(w) ==
    /\ csvExists' = TRUE
    /\ csvRows' = csvRows (+) SetToBag({Row(chunk[w])})
    /\ UNCHANGED <<progressFileExists, progressFile>>

\* The process is killed between lines 79 and 86, and started again.
CrashAfterAppend(w) ==
    /\ pc = "workers"
    /\ wstate[w] = "run"
    /\ faults < MaxFaults
    /\ faults' = faults + 1
    /\ HalfWritten(w)
    /\ MemoryLost
    /\ UNCHANGED <<queueFileExists, queueFile, site, extracted, enqueued>>

\* The program is run again after it gave up on a fatal error (line 228).
Rerun ==
    /\ pc = "exited"
    /\ faults < MaxFaults
    /\ faults' = faults + 1
    /\ MemoryLost
    /\ UNCHANGED <<disk, site, extracted, enqueued>>

\* ------------------------------------------------------------------- Next
Workers == 1..CONCURRENCY_LIMIT

Step ==
    \/ Startup
    \/ GotoBase
    \/ EnterTab
    \/ PageGoto
    \/ PageWaitElapsed
    \/ PageSave
    \/ ProbeFound
    \/ ProbeNotFound
    \/ CleanupProgress
    \/ CleanupQueue
    \/ ChunkStart
    \/ \E w \in Workers : w <= Len(chunk) /\ AttemptSucceeds(w)
    \/ \E w \in Workers : w <= Len(chunk) /\ RetryTimer(w)
    \/ ChunkEnd
    \/ CooldownElapsed
    \/ DrainReturns

Fault ==
    \/ GotoBaseError
    \/ PageGotoError
    \/ ProbeError
    \/ \E w \in Workers : w <= Len(chunk) /\ AttemptFails(w)
    \/ \E w \in Workers : w <= Len(chunk) /\ CloseFails(w)
    \/ Crash
    \/ \E w \in Workers : w <= Len(chunk) /\ CrashAfterAppend(w)
    \/ Rerun

Next == Step \/ Fault

Spec == Init /\ [][Next]_vars

\* The event loop runs every continuation that is ready, and every timer
\* fires; faults and kills are never forced.
FairSpec == Init /\ [][Next]_vars /\ WF_vars(Step)

TypeOK ==
    /\ pc \in {"start", "gotoBase", "tabEntry", "pageGoto", "pageWait", "pageSave",
               "probe", "chunkStart", "workers", "cooldown", "cleanupQueue",
               "done", "exited"}
    /\ Len(chunk) <= CONCURRENCY_LIMIT
    /\ \A w \in 1..Len(chunk) :
          /\ wstate[w] \in {"run", "wait", "done"}
          /\ results[w] \in {"pending", "true", "false", "undefined"}

\* ----------------------------------------------------------- observations
Range(q) == {q[k] : k \in 1..Len(q)}

\* Number of rows of output.csv whose company_name is n.
RowsNamed(n) ==
    BagCardinality([r \in {x \in BagToSet(csvRows) : x.name = n} |-> csvRows[r]])

RowNames == {r.name : r \in BagToSet(csvRows)}

\* The processed set of the checkpoint on disk.
PersistedProcessed ==
    IF progressFileExists THEN progressFile.processedCompanies ELSE {}

\* A chunk has just completed: Promise.all settled and the requeue was done.
ChunkCompleted == pc \in {"chunkStart", "cooldown"} /\ chunk # <<>>

\* ------------------------------------------------------------------ claims

\* C1 (dedup invariant): in every reachable state the output table holds at
\* most one row for every entity name, whatever the listings, failures,
\* kills and restarts.
DedupInvariant == \A n \in RowNames : RowsNamed(n) <= 1

\* C3 (skip rule): a chunk member whose name is already processed when it is
\* dequeued is a no-op: no attempt is made for it, and once the chunk has
\* completed it is not in the queue and it has not counted as a failure
\* towards the all-failed cooldown.
SkipRule ==
    /\ \A w \in 1..Len(chunk) :
          results[w] = "undefined" => wstate[w] = "done" /\ retryCount[w] = 0
    /\ ChunkCompleted =>
          \A w \in 1..Len(chunk) :
             results[w] = "undefined" =>
                /\ chunk[w] \notin Range(companyQueue)
                /\ pc # "cooldown"

\* C4 (queue monotonicity): within a run no step removes a name from the
\* processed set, and no step (addToQueue or the front re-insertion) puts an
\* entry into the work queue whose name is in the processed set.
QueueMonotonicity ==
    [][pc # "start" /\ pc' # "start" =>
         /\ progress.processedCompanies \subseteq progress'.processedCompanies
         /\ Len(companyQueue') > Len(companyQueue) =>
               LET added == Len(companyQueue') - Len(companyQueue)
                   inserted == IF pc = "workers"
                               THEN SubSeq(companyQueue', 1, added)
                               ELSE SubSeq(companyQueue', Len(companyQueue) + 1,
                                           Len(companyQueue'))
               IN \A k \in 1..added :
                     inserted[k].name \notin progress.processedCompanies]_vars

\* C5 (write before checkpoint): every name in the processed set, in memory
\* and in the checkpoint on disk, has a row in the output table; this holds
\* in every state, so also wherever the process is killed.
WriteBeforeCheckpoint ==
    /\ PersistedProcessed \subseteq RowNames
    /\ progress.processedCompanies \subseteq RowNames

\* C5 witness: the process was killed between appending a row and saving the
\* checkpoint, while the checkpoint already held another name: the row of the
\* interrupted entity is on disk and its name is not in the checkpoint.
WriteBeforeCheckpointWitness ==
    /\ pc = "start" /\ faults > 0
    /\ PersistedProcessed # {}
    /\ RowNames \ PersistedProcessed # {}

\* C7 (no silent queue loss): every entry that was enqueued and whose name is
\* not in the checkpoint on disk is in the queue file, in every state the
\* process can be killed in, also while its chunk is in flight.
NoSilentQueueLoss ==
    \A e \in enqueued :
        e.name \notin PersistedProcessed => queueFileExists /\ e \in Range(queueFile)

\* C7 witness: a chunk is in flight, one of its members is still running and
\* unprocessed, the in-memory queue no longer holds it, and an earlier member
\* of the crawl had failed and was put back.
NoSilentQueueLossWitness ==
    /\ pc = "workers"
    /\ \E w \in 1..Len(chunk) :
          /\ wstate[w] = "run"
          /\ retryCount[w] > 0
          /\ chunk[w] \in enqueued
          /\ chunk[w].name \notin PersistedProcessed
          /\ chunk[w] \notin Range(companyQueue)
    /\ \E w \in 1..Len(chunk) : results[w] = "true"

\* C8 (retry bound): each time an entity is drawn in a chunk it is attempted
\* at most maxRetries times; a wait happens only between two attempts (after
\* a failed attempt that is not the last) and every further attempt starts
\* from such a wait; a worker reports failure exactly after its third failed
\* attempt, and a member reported failed is in the queue once the chunk has
\* completed.
RetryBoundState ==
    /\ \A w \in 1..Len(chunk) :
          /\ retryCount[w] <= maxRetries
          /\ wstate[w] = "run" => retryCount[w] < maxRetries
          /\ wstate[w] = "wait" => retryCount[w] > 0 /\ retryCount[w] < maxRetries
          /\ results[w] = "false" <=> retryCount[w] = maxRetries
    /\ ChunkCompleted =>
          \A w \in 1..Len(chunk) :
             results[w] = "false" => chunk[w] \in Range(companyQueue)

RetryBoundStep ==
    pc = "workers" /\ pc' = "workers" =>
       \A w \in 1..Len(chunk) :
          /\ wstate[w] = "wait" /\ wstate'[w] # "wait" =>
                wstate'[w] = "run" /\ retryCount'[w] = retryCount[w]
          /\ wstate[w] = "run" /\ retryCount'[w] # retryCount[w] =>
                /\ retryCount'[w] = retryCount[w] + 1
                /\ wstate'[w] = IF retryCount'[w] < maxRetries THEN "wait" ELSE "done"

RetryBound == []RetryBoundState /\ [][RetryBoundStep]_vars

\* C8 witness: an entity failed three attempts without ever being written, was
\* reported failed, and is back in the queue after its chunk completed.
RetryBoundWitness ==
    /\ ChunkCompleted
    /\ \E w \in 1..Len(chunk) :
          /\ results[w] = "false"
          /\ retryCount[w] = maxRetries
          /\ chunk[w].name \notin RowNames
          /\ chunk[w] \in Range(companyQueue)

\* The listing pages of tab t, first to last.
PagesOfTab(t) == [p \in 1..Len(site[t].pages) |-> Url(t, p)]

IsPrefix(a, b) == Len(a) <= Len(b) /\ a = SubSeq(b, 1, Len(a))

\* C6 (deleted only on full completion): when a run without any fault reaches
\* the step that unlinks the checkpoint and the queue file, every listing
\* page of every tab has been listed and every entity on them has a row in
\* the output; and while a crawl is under way (pages listed, cleanup not
\* begun) both files are there.
DeletedOnlyOnCompletion ==
    /\ faults = 0 /\ pc = "tabEntry" /\ i > Len(tabLinks) =>
          \A t \in 1..Len(site) :
             \A p \in 1..Len(site[t].pages) :
                /\ Url(t, p) \in extracted
                /\ \A k \in 1..Len(site[t].pages[p]) :
                      site[t].pages[p][k].name \in RowNames
    /\ extracted # {} => progressFileExists /\ queueFileExists

\* C9 (pagination termination): in a run without any fault, the pages listed
\* under a tab are pages 1, 2, ... of that tab in order, each once and none
\* beyond the last, and a tab that has been left had all its pages listed.
PaginationExact ==
    faults = 0 =>
       \A t \in 1..Len(site) :
          /\ IsPrefix(visited[t], PagesOfTab(t))
          /\ t < i => visited[t] = PagesOfTab(t)

\* A restart after a kill that hit a chunk in flight: the kill is the first
\* fault of the behaviour, and the queue file holds members already written
\* and checkpointed next to members that are not.
MidChunkKill ==
    /\ pc = "start" /\ faults = 1
    /\ queueFileExists
    /\ \E e \in Range(queueFile) : e.name \in PersistedProcessed
    /\ \E e \in Range(queueFile) : e.name \notin PersistedProcessed

\* C2 (idempotent resume): a run restarted after a kill in mid-chunk, and hit
\* by no further fault, eventually reaches completion (the comparison of its
\* final output with an uninterrupted run presupposes that it does).
IdempotentResume == MidChunkKill ~> (pc = "done" \/ faults > 1)

InDrain == pc \in {"chunkStart", "workers", "cooldown"}

DrainReturned ==
    /\ pc \in {"gotoBase", "pageSave"}
    /\ companyQueue = <<>>
    /\ \A e \in enqueued : e.name \in progress.processedCompanies

\* C10 (the drain terminates): with no fault at all (so every extraction
\* fails finitely often), processCompaniesInChunks, once entered, eventually
\* returns with the queue empty and every queued name processed.
DrainTerminates == (InDrain /\ faults = 0) ~> (DrainReturned \/ faults > 0)

\* C11 (tab start page): in a run without faults, for a tab entered after
\* another tab of the same run, the first listing page navigated is the tab's
\* own URL.
TabStartsAtOwnUrl ==
    /\ faults = 0
    /\ pc = "pageGoto"
    /\ visited[i] = <<>>
    /\ \E t \in 1..(i - 1) : visited[t] # <<>>
    => nextPageUrl = tabLinks[i]

NextPageAdvances ==
    pc = "probe" =>
       /\ NextPage(nextPageUrl).tab = nextPageUrl.tab
       /\ PageOf(NextPage(nextPageUrl)) = PageOf(nextPageUrl) + 1
       /\ NextPage(nextPageUrl) # nextPageUrl

\* C14 (the failure path leaves no trace): the step in which a worker reports
\* failure adds no row and changes neither the processed set nor the counter
\* nor the checkpoint file; and a chunk completes with every member settled,
\* whatever failed.
FailureLeavesNoTrace ==
    /\ [](ChunkCompleted => \A w \in 1..Len(chunk) : results[w] # "pending")
    /\ [][\A w \in 1..Len(chunk) :
             pc = "workers" /\ results[w] = "pending" /\ pc' = "workers"
             /\ results'[w] = "false" =>
                csvRows' = csvRows /\ progress' = progress
                /\ progressFile' = progressFile]_vars

\* Some member of the chunk stays in flight across the step.
OthersInFlight ==
    \E w \in 1..Len(chunk) : wstate[w] # "done" /\ wstate'[w] # "done"

\* C15 (driver-only mutation), as claimed: while workers of the chunk are in
\* flight nothing changes the processed set, the counter or the queue.
DriverOnlyMutation ==
    [][pc = "workers" /\ pc' = "workers" /\ OthersInFlight =>
          progress' = progress /\ companyQueue' = companyQueue]_vars

\* C15, amended: the queue and its file change only in the driver, never
\* while the chunk is in flight; the processed set and the counter are changed
\* by a worker itself on its own success, also while others are in flight, by
\* exactly its own name and one count, and saved at once.
WorkerMutation ==
    [][pc = "workers" /\ pc' = "workers" =>
          /\ companyQueue' = companyQueue
          /\ queueFile' = queueFile /\ queueFileExists' = queueFileExists
          /\ progress' # progress =>
                \E w \in 1..Len(chunk) :
                   /\ wstate[w] = "run"
                   /\ progress' =
                         [progress EXCEPT
                             !.processedCompanies = @ \cup {chunk[w].name},
                             !.totalProcessed = @ + 1]
                   /\ progressFileExists' /\ progressFile' = progress']_vars

\* C15 witness: one member has returned true and its name is recorded and
\* saved while another member of the same chunk is still running.
WorkerMutationWitness ==
    /\ pc = "workers"
    /\ \E w1, w2 \in 1..Len(chunk) :
          /\ results[w1] = "true"
          /\ chunk[w1].name \in PersistedProcessed
          /\ wstate[w2] = "run"
          /\ chunk[w2].name \notin progress.processedCompanies

InFlight == {w \in 1..Len(chunk) : wstate[w] # "done"}

\* C16 (bounded fan-out/fan-in): at most CONCURRENCY_LIMIT tasks are in
\* flight, all of the current chunk; while any is in flight the driver sits in
\* Promise.all, and no step other than a kill draws a chunk, changes the
\* queue or navigates a listing page.
BoundedFanOut ==
    /\ [](/\ Len(chunk) <= CONCURRENCY_LIMIT
          /\ Cardinality(InFlight) <= CONCURRENCY_LIMIT
          /\ InFlight # {} => pc = "workers")
    /\ [][InFlight # {} /\ pc' # "start" =>
             /\ chunk' = chunk /\ companyQueue' = companyQueue
             /\ pc' = "workers" /\ nextPageUrl' = nextPageUrl
             /\ visited' = visited]_vars

\* C16 witness: CONCURRENCY_LIMIT tasks are in flight and more work waits in
\* the queue.
BoundedFanOutWitness ==
    /\ pc = "workers"
    /\ Cardinality(InFlight) = CONCURRENCY_LIMIT
    /\ companyQueue # <<>>

\* C17 (front re-insertion order): when a chunk completes, the queue becomes
\* the members that failed (reported false), in chunk order, followed by the
\* entries that were behind the chunk, in their order.
FrontReinsertion ==
    [][pc = "workers" /\ pc' \in {"chunkStart", "cooldown"} =>
          companyQueue' =
             Filter(chunk, {k \in 1..Len(chunk) : results[k] = "false"})
                \o companyQueue]_vars

\* The cursor of checkpoint cp points at a page all of whose entities are in
\* cp's processed set.
CursorSound(cp) ==
    cp.lastPageUrl # null =>
       \A k \in 1..Len(Listing(cp.lastPageUrl)) :
          Listing(cp.lastPageUrl)[k].name \in cp.processedCompanies

\* C18 (page cursor soundness): a page the checkpoint's lastPageUrl names, in
\* memory or on disk, has been listed and all its entities are processed; the
\* cursor is set only by the page checkpoint after the drain; a failed load
\* of a page changes neither lastPageUrl nor lastTabUrl.
PageCursorSound ==
    /\ [](/\ CursorSound(progress)
          /\ progressFileExists =>
                /\ CursorSound(progressFile)
                /\ progressFile.lastPageUrl # null =>
                      Served(progressFile.lastPageUrl) \in extracted)
    /\ [][/\ pc = "pageGoto" /\ pc' = "pageWait" =>
                progress' = progress /\ progressFile' = progressFile
          /\ pc # "start" /\ pc' # "start"
             /\ progress'.lastTabUrl # progress.lastTabUrl =>
                pc = "pageSave" /\ companyQueue = <<>>]_vars

\* C18 witness: a page with entities was checkpointed, and the load of the
\* page after it has just failed.
PageCursorSoundWitness ==
    /\ pc = "pageWait"
    /\ progressFileExists
    /\ progressFile.lastPageUrl # null
    /\ Listing(progressFile.lastPageUrl) # <<>>
    /\ progressFile.lastPageUrl # nextPageUrl

CounterConsistency ==
    faults = 0 =>
       /\ progress.totalProcessed = Cardinality(progress.processedCompanies)
       /\ progress.totalProcessed = BagCardinality(csvRows)

====
